---- MODULE Spec2Model ----
(***************************************************************************)
(* A model of beancount_ethereum/downloader.py: the block-explorer client  *)
(* (BlockExplorerApi), the wallet client (WalletApi) and download().       *)
(*                                                                         *)
(* Three specifications share the operators that model the code:           *)
(*   SpecItems    a fresh client, one call of one get_* operation on one   *)
(*                provider response drawn from a bounded set;              *)
(*   SpecRequest  one BlockExplorerApi instance, any sequence of calls of  *)
(*                _make_api_request while the wall clock advances;         *)
(*   SpecDownload download(config, output_dir) over a bounded address map. *)
(*                                                                         *)
(* JSON values: an optional key of a JSON object is a sequence of length   *)
(* at most one (None: the key is absent, Some(v): it is present).  Strings *)
(* that the code lower-cases (addresses) are sequences of characters.      *)
(* Time is in whole seconds.                                               *)
(***************************************************************************)
EXTENDS Integers, Sequences, FiniteSets, TLC

\* ---------------------------------------------------------------- bounds
\* items in one provider response
MaxItems == 2
\* the configured block_explorer_api_request_delay ranges over 0..MaxDelay
MaxDelay == 2
\* seconds a request may take, and seconds a sleep may overrun
MaxLatency == 1
\* seconds the clock may advance between calls in SpecRequest
Horizon == 3
\* keys of config['account_map']
MaxAddresses == 2

\* ------------------------------------------------------- values and text
None == <<>>
Some(v) == <<v>>

RECURSIVE Flatten(_)
\* the concatenation of a sequence of sequences
Flatten(ss) == IF ss = <<>> THEN <<>> ELSE Head(ss) \o Flatten(Tail(ss))

\* str.lower() on the characters the addresses below are written in
LowerChar(c) ==
    CASE c = "A" -> "a"
      [] c = "B" -> "b"
      [] c = "C" -> "c"
      [] c = "D" -> "d"
      [] c = "E" -> "e"
      [] c = "F" -> "f"
      [] OTHER -> c

Lower(s) == [i \in DOMAIN s |-> LowerChar(s[i])]

Digits == <<"0", "1", "2", "3", "4", "5", "6", "7", "8", "9">>

\* int(s) succeeds on a numeral and raises ValueError on other text
IsNumeral(s) == \E i \in DOMAIN Digits : Digits[i] = s

IntOf(s) == (CHOOSE i \in DOMAIN Digits : Digits[i] = s) - 1

RECURSIVE Normalize(_, _)
\* a decimal number coef * 10^exp in the form with the least coefficient
Normalize(coef, exp) ==
    IF coef = 0 THEN [coef |-> 0, exp |-> 0]
    ELSE IF coef % 10 = 0 THEN Normalize(coef \div 10, exp + 1)
    ELSE [coef |-> coef, exp |-> exp]

\* Decimal(n) / 10 ** d
DecimalDiv(n, d) == Normalize(n, 0 - d)

\* the exponent of WEI = 10 ** 18
WeiDecimals == 18

MINER == <<"0", "x", "f", "f">>

NO_TRANSACTIONS ==
    { "No transactions found",
      "No internal transactions found",
      "No token transfers found" }

\* ------------------------------------------------------------ exceptions
Ok(v) == [ok |-> TRUE, value |-> v, exc |-> "none", text |-> <<>>]

Raise(exc, text) == [ok |-> FALSE, value |-> <<>>, exc |-> exc, text |-> text]

\* except HTTPError as http_err: raise RuntimeError(...)
WrapHttp(text) == Raise("RuntimeError", <<"HTTP error occurred: ">> \o text)

\* except Exception as err: raise RuntimeError(...)
WrapOther(text) == Raise("RuntimeError", <<"An error occurred: ">> \o text)

\* ------------------------------------- BlockExplorerApi._make_api_request
\* What one GET of the block-explorer API comes back with.  transport is
\* "ok", "http_error" (raise_for_status raises HTTPError) or "conn_error"
\* (session.get raises); is_json says whether response.json() parses; data
\* is the parsed JSON object, each of its keys optional.
Response(transport, is_json, status, message, result) ==
    [transport |-> transport, is_json |-> is_json,
     data |-> [status |-> status, message |-> message, result |-> result]]

\* the timestamp set only once the provider's status is known to be good
ResponseParsedAndAccepted(resp) ==
    /\ resp.transport = "ok"
    /\ resp.is_json
    /\ resp.data.status # None
    /\ IsNumeral(resp.data.status[1])
    /\ resp.data.message # None
    /\ \/ IntOf(resp.data.status[1]) = 1
       \/ resp.data.message[1] \in NO_TRANSACTIONS
    /\ resp.data.result # None

\* the statement after response.json() is reached
ResponseParsed(resp) == resp.transport = "ok" /\ resp.is_json

\* a NO_TRANSACTIONS that lists the first phrase alone
IsEmptyResultMessageFirstOnly(message) == message = "No transactions found"

\* data['message'] in NO_TRANSACTIONS
IsEmptyResultMessage(message) == message \in NO_TRANSACTIONS

\* the try block: the value returned or the exception raised
ApiOutcome(resp) ==
    LET data == resp.data IN
    IF resp.transport = "http_error" THEN WrapHttp(<<"HTTPError">>)
    ELSE IF resp.transport = "conn_error" THEN WrapOther(<<"ConnectionError">>)
    ELSE IF ~resp.is_json THEN WrapOther(<<"JSONDecodeError">>)
    ELSE IF data.status = None THEN WrapOther(<<"KeyError", "status">>)
    ELSE IF ~IsNumeral(data.status[1]) THEN WrapOther(<<"ValueError">>)
    ELSE IF IntOf(data.status[1]) = 1
         THEN IF data.result = None THEN WrapOther(<<"KeyError", "result">>)
              ELSE Ok(data.result[1])
    ELSE IF data.message = None THEN WrapOther(<<"KeyError", "message">>)
    ELSE IF IsEmptyResultMessage(data.message[1])
         THEN IF data.result = None THEN WrapOther(<<"KeyError", "result">>)
              ELSE Ok(data.result[1])
    ELSE WrapOther(<<"API Error: ", data.message[1]>>)

\* a sleep of the time elapsed instead of the time that remains
SleepForElapsed(delta, delay) == IF delta < delay THEN delta ELSE 0

\* the argument of time.sleep, 0 when time.sleep is not called
SleepFor(delta, delay) == IF delta < delay THEN delay - delta ELSE 0

\* One call of _make_api_request entered at time now with
\* _last_request_timestamp = last: the sleep, the time the GET is issued
\* (the sleep may overrun by over), the time the call ends (the GET takes
\* lat), the new _last_request_timestamp and the outcome.
ApiRequest(now, last, delay, resp, over, lat) ==
    LET nap == SleepFor(now - last, delay)
        issued == now + nap + over
        ended == issued + lat
    IN [entered |-> now, before |-> last, slept |-> nap, issued |-> issued,
        ended |-> ended,
        timestamp |-> IF ResponseParsed(resp) THEN ended ELSE last,
        outcome |-> ApiOutcome(resp)]

\* ------------------------------------------------ BlockExplorerApi.get_*
\* int(item['isError']) == 0
NoError(item) == IntOf(item.isError) = 0

\* a comparison of the addresses as they are written
IsSenderExact(item, address) == item.from = address

\* item['from'].lower() == address.lower()
IsSender(item, address) == Lower(item.from) = Lower(address)

ValueRecord(item, currency) ==
    [tx_id |-> item.hash, time |-> IntOf(item.timeStamp),
     from |-> item.from, to |-> item.to, currency |-> currency,
     value |-> DecimalDiv(IntOf(item.value), WeiDecimals)]

FeeRecord(item, currency) ==
    [tx_id |-> item.hash, time |-> IntOf(item.timeStamp),
     from |-> item.from, to |-> MINER, currency |-> currency,
     value |-> DecimalDiv(IntOf(item.gasUsed) * IntOf(item.gasPrice),
                          WeiDecimals)]

\* the records one txlist item appends
NormalRecords(item, address, currency) ==
    (IF NoError(item) THEN <<ValueRecord(item, currency)>> ELSE <<>>)
    \o (IF IsSender(item, address) THEN <<FeeRecord(item, currency)>> ELSE <<>>)

GetNormalTransactions(address, currency, outcome) ==
    IF ~outcome.ok THEN outcome
    ELSE Ok(Flatten([i \in DOMAIN outcome.value |->
                        NormalRecords(outcome.value[i], address, currency)]))

\* item['hash'] if 'hash' in item else item['transactionHash']
InternalTxId(item) ==
    IF item.hash # None THEN item.hash[1] ELSE item.transactionHash[1]

InternalRecord(item, currency) ==
    [tx_id |-> InternalTxId(item), time |-> IntOf(item.timeStamp),
     from |-> item.from, to |-> item.to, currency |-> currency,
     value |-> DecimalDiv(IntOf(item.value), WeiDecimals)]

GetInternalTransactions(address, currency, outcome) ==
    IF ~outcome.ok THEN outcome
    ELSE IF \E i \in DOMAIN outcome.value :
               /\ outcome.value[i].hash = None
               /\ outcome.value[i].transactionHash = None
         THEN Raise("KeyError", <<"transactionHash">>)
    ELSE Ok([i \in DOMAIN outcome.value |->
                InternalRecord(outcome.value[i], currency)])

\* no item is skipped
IsNftNever(item) == FALSE

\* item['tokenDecimal'] == '': the item is skipped
IsNft(item) == item.tokenDecimal = Some("")

Erc20Record(item) ==
    [tx_id |-> item.hash, time |-> IntOf(item.timeStamp),
     from |-> item.from, to |-> item.to, currency |-> item.tokenSymbol,
     value |-> DecimalDiv(IntOf(item.value), IntOf(item.tokenDecimal[1])),
     contract |-> item.contractAddress]

GetErc20Transfers(address, outcome) ==
    IF ~outcome.ok THEN outcome
    ELSE IF \E i \in DOMAIN outcome.value : outcome.value[i].tokenDecimal = None
         THEN Raise("KeyError", <<"tokenDecimal">>)
    ELSE IF \E i \in DOMAIN outcome.value :
               /\ ~IsNft(outcome.value[i])
               /\ ~IsNumeral(outcome.value[i].tokenDecimal[1])
         THEN Raise("InvalidOperation", <<"tokenDecimal">>)
    ELSE Ok(LET kept == SelectSeq(outcome.value, LAMBDA item : ~IsNft(item))
            IN [i \in DOMAIN kept |-> Erc20Record(kept[i])])

\* The 'time' entry of the dict is evaluated before the request is made.
GetBaseCurrencyBalances(address, currency, now, outcome) ==
    IF ~outcome.ok THEN outcome
    ELSE Ok(<<[time |-> now, address |-> Lower(address), currency |-> currency,
               balance |-> DecimalDiv(IntOf(outcome.value), WeiDecimals)]>>)

\* ------------------------------------------- WalletApi.get_asset_balances
\* What the GET of the wallet API comes back with: body is the parsed JSON
\* object r, data its 'data' object; every key is optional.
WalletResponse(transport, is_json, error, error_message, data) ==
    [transport |-> transport, is_json |-> is_json,
     body |-> [error |-> error, error_message |-> error_message, data |-> data]]

WalletData(updated_at, items) == [updated_at |-> updated_at, items |-> items]

\* the try block: data, or the exception raised
WalletTry(resp) ==
    LET r == resp.body IN
    IF resp.transport = "http_error" THEN WrapHttp(<<"HTTPError">>)
    ELSE IF resp.transport = "conn_error" THEN WrapOther(<<"ConnectionError">>)
    ELSE IF ~resp.is_json THEN WrapOther(<<"JSONDecodeError">>)
    ELSE IF r.error = None THEN WrapOther(<<"KeyError", "error">>)
    ELSE IF r.error[1]
         THEN IF r.error_message = None
              THEN WrapOther(<<"KeyError", "error_message">>)
              ELSE WrapOther(<<"API Error: ", r.error_message[1]>>)
    ELSE IF r.data = None THEN WrapOther(<<"KeyError", "data">>)
    ELSE Ok(r.data[1])

\* data['updated_at'][:23] matches "%Y-%m-%dT%H:%M:%S.%f": the texts the
\* model draws from, of which the one with a fraction of a second does.
IsTimeText(text) == text = "2023-06-01T12:34:56.789123999Z"

\* int(dt.timestamp()) of the parsed text, read as UTC
TimestampOf(text) ==
    CASE text = "2023-06-01T12:34:56.789123999Z" -> 1685622896
      [] OTHER -> 0

\* A JSON number, boolean, string or null.  A number is num/den.
Quote(t, num, den) == [t |-> t, num |-> num, den |-> den]

\* isinstance(i['quote'], (int, float)): bool is a subclass of int
IsIntOrFloat(q) == q.t \in {"int", "float", "bool"}

\* i['quote'] > 0, where True is 1 and False is 0
IsPositive(q) == q.num > 0

IsValidAsset(item) == IsIntOrFloat(item.quote) /\ IsPositive(item.quote)

BalanceRecord(item, address, timestamp) ==
    [time |-> timestamp, address |-> Lower(address),
     currency |-> item.contract_ticker_symbol,
     contract |-> item.contract_address,
     balance |-> DecimalDiv(IntOf(item.balance), item.contract_decimals),
     rate |-> item.quote_rate]

GetAssetBalances(address, resp) ==
    LET tried == WalletTry(resp) IN
    IF ~tried.ok THEN tried
    ELSE LET data == tried.value IN
         IF data.updated_at = None THEN Raise("KeyError", <<"updated_at">>)
         ELSE IF ~IsTimeText(data.updated_at[1]) THEN Raise("ValueError", <<"strptime">>)
         ELSE IF data.items = None THEN Raise("KeyError", <<"items">>)
         ELSE LET valid_assets == SelectSeq(data.items[1], IsValidAsset)
                  timestamp == TimestampOf(data.updated_at[1])
              IN Ok([i \in DOMAIN valid_assets |->
                        BalanceRecord(valid_assets[i], address, timestamp)])

\* ----------------------------------------------------------------- inputs
DEFAULT_CURRENCY == "ETH"

\* one address written in two ways, and two others
AddrA == <<"0", "x", "a", "B">>
AddrAOtherCase == <<"0", "x", "A", "b">>
AddrC == <<"0", "x", "c", "D">>
AddrE == <<"0", "x", "E", "e">>
AddrPeer == <<"0", "x", "9", "9">>

\* all sequences over Choices, up to MaxItems long
Lists(Choices) == UNION { [1..n -> Choices] : n \in 0..MaxItems }

\* a txlist item; its hash is the place it has in the provider's answer
TxItem(i, isError, from) ==
    [hash |-> <<"tx", i>>, timeStamp |-> "7", from |-> from, to |-> AddrPeer,
     isError |-> isError, value |-> "5", gasUsed |-> "2", gasPrice |-> "3"]

TxLists ==
    { [i \in DOMAIN f |-> TxItem(i, f[i][1], f[i][2])] :
        f \in Lists({"0", "1"} \X {AddrA, AddrAOtherCase, AddrC}) }

\* a txlistinternal item carrying 'hash', 'transactionHash', both or neither
InternalItem(i, keys) ==
    [hash |-> IF "hash" \in keys THEN Some(<<"tx", i>>) ELSE None,
     transactionHash |->
        IF "transactionHash" \in keys THEN Some(<<"itx", i>>) ELSE None,
     timeStamp |-> "7", from |-> AddrPeer, to |-> AddrA, value |-> "5"]

InternalLists ==
    { [i \in DOMAIN f |-> InternalItem(i, f[i])] :
        f \in Lists(SUBSET {"hash", "transactionHash"}) }

\* a tokentx item; tokenDecimal is absent, '' or a numeral
TokenItem(i, tokenDecimal) ==
    [hash |-> <<"tx", i>>, timeStamp |-> "7", from |-> AddrPeer, to |-> AddrA,
     tokenSymbol |-> "DAI", value |-> "5", tokenDecimal |-> tokenDecimal,
     contractAddress |-> <<"0", "x", "d", "a">>]

TokenLists ==
    { [i \in DOMAIN f |-> TokenItem(i, f[i])] :
        f \in Lists({None, Some(""), Some("2"), Some("0")}) }

Quotes ==
    { Quote("null", 0, 1), Quote("str", 0, 1),
      Quote("bool", 1, 1), Quote("bool", 0, 1),
      Quote("int", 0, 1), Quote("int", 2, 1), Quote("int", 0 - 1, 1),
      Quote("float", 1, 10000) }

\* an item of the wallet API; its ticker is the place it has in the answer
AssetItem(i, quote) ==
    [contract_ticker_symbol |-> <<"T", i>>,
     contract_address |-> <<"0", "x", "d", "a">>,
     balance |-> "5", contract_decimals |-> 2,
     quote |-> quote, quote_rate |-> Quote("float", 1, 2)]

AssetLists == { [i \in DOMAIN f |-> AssetItem(i, f[i])] : f \in Lists(Quotes) }

NoData == Response("ok", FALSE, None, None, None).data

\* the GET fails, or its body is not JSON
Failures ==
    { [transport |-> "http_error", is_json |-> FALSE, data |-> NoData],
      [transport |-> "conn_error", is_json |-> FALSE, data |-> NoData],
      [transport |-> "ok", is_json |-> FALSE, data |-> NoData] }

\* answers of the provider to report success with the items it found
Found(Results) == { Response("ok", TRUE, Some("1"), Some("OK"), Some(l)) : l \in Results }

\* answers of the provider that found nothing, or that refuses
NotFound(message) ==
    { Response("ok", TRUE, Some("0"), Some(message), Some(<<>>)),
      Response("ok", TRUE, Some("0"), Some("NOTOK"), Some(<<>>)) }

TxlistResponses == Failures \cup Found(TxLists) \cup NotFound("No transactions found")

InternalResponses ==
    Failures \cup Found(InternalLists) \cup NotFound("No internal transactions found")

TokenResponses == Failures \cup Found(TokenLists) \cup NotFound("No token transfers found")

\* the 'balance' action answers with one numeral
BalanceResponses == Failures \cup Found({"5", "0"})

NoBody == WalletResponse("ok", FALSE, None, None, None).body

TimeTexts == {"2023-06-01T12:34:56.789123999Z", "2023-06-01T12:34:56Z"}

WalletResponses ==
    { [transport |-> "http_error", is_json |-> FALSE, body |-> NoBody],
      [transport |-> "conn_error", is_json |-> FALSE, body |-> NoBody],
      [transport |-> "ok", is_json |-> FALSE, body |-> NoBody] }
    \cup { WalletResponse("ok", TRUE, e, m, None) :
             e \in {None, Some(TRUE), Some(FALSE)}, m \in {None, Some("bad key")} }
    \cup { WalletResponse("ok", TRUE, Some(FALSE), None, Some(WalletData(u, l))) :
             u \in {None} \cup {Some(t) : t \in TimeTexts},
             l \in {None, Some(<<>>), Some(<<AssetItem(1, Quote("int", 2, 1))>>)} }
    \cup { WalletResponse("ok", TRUE, Some(FALSE), None,
                          Some(WalletData(Some("2023-06-01T12:34:56.789123999Z"), Some(l)))) :
             l \in AssetLists }

\* time.time() when the program starts: seconds since 1970, which is more
\* than any delay a configuration asks for
StartTime == MaxDelay + 1

\* ------------------------------------------------------------------ state
VARIABLES
    clock,                    \* time.time()
    last_request_timestamp,   \* BlockExplorerApi._last_request_timestamp
    delay,                    \* BlockExplorerApi.delay
    pc,                       \* where the program is
    call,                     \* the last call of a client operation
    addresses,                \* config['account_map'].keys(), in order
    idx,                      \* the place in addresses of the for loop
    transactions,             \* download's transactions
    balances,                 \* download's balances
    fs,                       \* the two output files
    writes,                   \* the files written, in order
    trace                     \* the provider calls download made, in order

vars == <<clock, last_request_timestamp, delay, pc, call, addresses, idx,
          transactions, balances, fs, writes, trace>>

downloadVars == <<addresses, idx, transactions, balances, fs, writes, trace>>

NoRequest ==
    [entered |-> 0, before |-> 0, slept |-> 0, issued |-> 0, ended |-> 0,
     timestamp |-> 0, outcome |-> Ok(<<>>)]

NoCall ==
    [op |-> "none", address |-> <<>>, resp |-> <<>>, req |-> NoRequest,
     outcome |-> Ok(<<>>)]

\* BlockExplorerApi.__init__ with a delay of d
NewClient(d) ==
    /\ delay = d
    /\ last_request_timestamp = 0

NoDownload ==
    /\ addresses = <<>>
    /\ idx = 0
    /\ transactions = <<>>
    /\ balances = <<>>
    /\ fs = [transactions |-> None, balances |-> None]
    /\ writes = <<>>
    /\ trace = <<>>

\* --------------------------------------------------------------- SpecItems
InitItems ==
    /\ clock = StartTime
    /\ \E d \in 0..MaxDelay : NewClient(d)
    /\ pc = "ready"
    /\ call = NoCall
    /\ NoDownload

\* a call of a get_* operation of the block-explorer client returns
Returned(op, address, resp, req, outcome) ==
    /\ clock' = req.ended
    /\ last_request_timestamp' = req.timestamp
    /\ call' = [op |-> op, address |-> address, resp |-> resp, req |-> req,
                outcome |-> outcome]
    /\ pc' = "returned"
    /\ UNCHANGED <<delay, downloadVars>>

CallNormal ==
    /\ pc = "ready"
    /\ \E address \in {AddrA, AddrC}, resp \in TxlistResponses,
          over \in 0..MaxLatency, lat \in 0..MaxLatency :
          LET req == ApiRequest(clock, last_request_timestamp, delay, resp, over, lat)
          IN Returned("get_normal_transactions", address, resp, req,
                      GetNormalTransactions(address, DEFAULT_CURRENCY, req.outcome))

CallInternal ==
    /\ pc = "ready"
    /\ \E address \in {AddrA, AddrC}, resp \in InternalResponses,
          over \in 0..MaxLatency, lat \in 0..MaxLatency :
          LET req == ApiRequest(clock, last_request_timestamp, delay, resp, over, lat)
          IN Returned("get_internal_transactions", address, resp, req,
                      GetInternalTransactions(address, DEFAULT_CURRENCY, req.outcome))

CallErc20 ==
    /\ pc = "ready"
    /\ \E address \in {AddrA, AddrC}, resp \in TokenResponses,
          over \in 0..MaxLatency, lat \in 0..MaxLatency :
          LET req == ApiRequest(clock, last_request_timestamp, delay, resp, over, lat)
          IN Returned("get_erc20_transfers", address, resp, req,
                      GetErc20Transfers(address, req.outcome))

CallBaseBalance ==
    /\ pc = "ready"
    /\ \E address \in {AddrA, AddrC}, resp \in BalanceResponses,
          over \in 0..MaxLatency, lat \in 0..MaxLatency :
          LET req == ApiRequest(clock, last_request_timestamp, delay, resp, over, lat)
          IN Returned("get_base_currency_balances", address, resp, req,
                      GetBaseCurrencyBalances(address, DEFAULT_CURRENCY, clock,
                                              req.outcome))

\* WalletApi.get_asset_balances reads no clock and keeps no state
CallAssets ==
    /\ pc = "ready"
    /\ \E address \in {AddrA, AddrC}, resp \in WalletResponses :
          /\ call' = [op |-> "get_asset_balances", address |-> address,
                      resp |-> resp, req |-> NoRequest,
                      outcome |-> GetAssetBalances(address, resp)]
          /\ pc' = "returned"
          /\ UNCHANGED <<clock, last_request_timestamp, delay, downloadVars>>

\* answers of every shape the request primitive tells apart
RequestResponses ==
    Failures
    \cup { Response("ok", TRUE, Some("0"), m, r) :
             m \in {None, Some("OK"), Some("NOTOK")}
                   \cup {Some(p) : p \in NO_TRANSACTIONS},
             r \in {None, Some(<<>>), Some(<<TxItem(1, "0", AddrA)>>)} }
    \cup { Response("ok", TRUE, Some("1"), Some("OK"), r) :
             r \in {None, Some(<<>>), Some(<<TxItem(1, "0", AddrA)>>)} }
    \cup { Response("ok", TRUE, st, Some(m), Some(<<>>)) :
             st \in {None, Some("x")}, m \in {"OK", "No transactions found"} }

\* _make_api_request called on its own
CallRequest ==
    /\ pc = "ready"
    /\ \E action \in {"txlist", "txlistinternal", "tokentx", "balance"},
          resp \in RequestResponses,
          over \in 0..MaxLatency, lat \in 0..MaxLatency :
          LET req == ApiRequest(clock, last_request_timestamp, delay, resp, over, lat)
          IN Returned(action, AddrA, resp, req, req.outcome)

NextItems ==
    \/ CallNormal
    \/ CallInternal
    \/ CallErc20
    \/ CallBaseBalance
    \/ CallAssets
    \/ CallRequest

SpecItems == InitItems /\ [][NextItems]_vars

\* ------------------------------------------------------------- SpecRequest
\* one answer of each kind the request primitive tells apart: the GET
\* fails, the body is not JSON, the provider refuses, the body lacks its
\* status, the provider found nothing, the provider found an item
PacedResponses ==
    { [transport |-> "http_error", is_json |-> FALSE, data |-> NoData],
      [transport |-> "ok", is_json |-> FALSE, data |-> NoData],
      Response("ok", TRUE, Some("0"), Some("NOTOK"), Some(<<>>)),
      Response("ok", TRUE, None, Some("OK"), Some(<<>>)),
      Response("ok", TRUE, Some("0"), Some("No transactions found"), Some(<<>>)),
      Response("ok", TRUE, Some("1"), Some("OK"), Some(<<TxItem(1, "0", AddrA)>>)) }

InitRequest ==
    /\ clock = StartTime
    /\ \E d \in 0..MaxDelay : NewClient(d)
    /\ pc = "idle"
    /\ call = NoCall
    /\ NoDownload

\* a second passes in which the client is not called
Tick ==
    /\ pc = "idle"
    /\ clock < StartTime + Horizon
    /\ clock' = clock + 1
    /\ UNCHANGED <<last_request_timestamp, delay, pc, call, downloadVars>>

\* _make_api_request(address, action)
MakeApiRequest ==
    /\ pc = "idle"
    /\ clock <= StartTime + Horizon
    /\ \E action \in {"txlist", "balance"},
          resp \in PacedResponses,
          over \in 0..MaxLatency, lat \in 0..MaxLatency :
          LET req == ApiRequest(clock, last_request_timestamp, delay, resp, over, lat)
          IN /\ clock' = req.ended
             /\ last_request_timestamp' = req.timestamp
             /\ call' = [op |-> action, address |-> AddrA, resp |-> resp,
                         req |-> req, outcome |-> req.outcome]
             /\ UNCHANGED <<delay, pc, downloadVars>>

NextRequest ==
    \/ Tick
    \/ MakeApiRequest

SpecRequest == InitRequest /\ [][NextRequest]_vars

\* ------------------------------------------------------------ SpecDownload
\* config['account_map']: its keys are distinct and keep their order; the
\* maps drawn are the first keys of one order and of another
AddressLists ==
    { SubSeq(order, 1, n) :
        order \in {<<AddrA, AddrC, AddrE>>, <<AddrC, AddrA, AddrE>>},
        n \in 0..MaxAddresses }

\* the outgoing transactions of AddrA: one that succeeded, one that failed
DlTxlistResponses ==
    { [transport |-> "conn_error", is_json |-> FALSE, data |-> NoData],
      Response("ok", TRUE, Some("0"), Some("NOTOK"), Some(<<>>)),
      Response("ok", TRUE, Some("0"), Some("No transactions found"), Some(<<>>)),
      Response("ok", TRUE, Some("1"), Some("OK"),
               Some(<<TxItem(1, "0", AddrA), TxItem(2, "1", AddrA)>>)) }

DlInternalResponses ==
    { [transport |-> "http_error", is_json |-> FALSE, data |-> NoData],
      Response("ok", TRUE, Some("0"), Some("No internal transactions found"),
               Some(<<>>)),
      Response("ok", TRUE, Some("1"), Some("OK"),
               Some(<<InternalItem(1, {"transactionHash"})>>)) }

DlTokenResponses ==
    { [transport |-> "ok", is_json |-> FALSE, data |-> NoData],
      Response("ok", TRUE, Some("1"), Some("OK"), Some(<<TokenItem(1, Some("2"))>>)) }

DlWalletResponses ==
    { WalletResponse("ok", TRUE, Some(TRUE), Some("bad key"), None),
      WalletResponse("ok", TRUE, Some(FALSE), None,
                     Some(WalletData(None, Some(<<>>)))),
      WalletResponse("ok", TRUE, Some(FALSE), None,
                     Some(WalletData(Some("2023-06-01T12:34:56.789123999Z"),
                                     Some(<<AssetItem(1, Quote("int", 2, 1)),
                                            AssetItem(2, Quote("null", 0, 1))>>)))) }

\* what a run before this one left in an output file
Stale == <<[stale |-> TRUE]>>

\* str(Decimal): the digits and the exponent
DecimalStr(d) == <<"Decimal", d.coef, "E", d.exp>>

\* json.dump(records, file, indent=4, default=str): a Decimal is written
\* as its text, every other value as it is
JsonDump(records) ==
    [i \in DOMAIN records |->
        [k \in DOMAIN records[i] |->
            IF k \in {"value", "balance"}
            THEN DecimalStr(records[i][k])
            ELSE records[i][k]]]

\* a loop that ends after its first address
LoopDoneAfterFirst(i, n) == i > n \/ i > 1

\* the for loop has no address left
LoopDone(i, n) == i > n

\* the token transfers fetched before the internal transactions
StepAfterSwapped(step) ==
    CASE step = "txlist" -> "tokentx"
      [] step = "tokentx" -> "txlistinternal"
      [] step = "txlistinternal" -> "assets"
      [] step = "assets" -> "next_address"

\* the statement download runs after a call of the loop body returned
StepAfter(step) ==
    CASE step = "txlist" -> "txlistinternal"
      [] step = "txlistinternal" -> "tokentx"
      [] step = "tokentx" -> "assets"
      [] step = "assets" -> "next_address"

\* transactions = records
ExtendReplacing(list, records) == records

\* transactions += records
Extend(list, records) == list \o records

InitDownload ==
    /\ clock = StartTime
    /\ \E d \in {0, MaxDelay} : NewClient(d)
    /\ call = NoCall
    /\ addresses \in AddressLists
    /\ idx = 1
    /\ pc = IF LoopDone(1, Len(addresses)) THEN "write_transactions" ELSE "txlist"
    /\ transactions = <<>>
    /\ balances = <<>>
    /\ fs \in { [transactions |-> None, balances |-> None],
                [transactions |-> Some(Stale), balances |-> Some(Stale)] }
    /\ writes = <<>>
    /\ trace = <<>>

\* where download goes on after the call at pc returned
Advance ==
    IF StepAfter(pc) = "next_address"
    THEN /\ idx' = idx + 1
         /\ pc' = IF LoopDone(idx + 1, Len(addresses))
                  THEN "write_transactions" ELSE "txlist"
    ELSE /\ idx' = idx
         /\ pc' = StepAfter(pc)

\* A call of the block-explorer client made by the loop body: the request,
\* then the records appended, or the exception that ends download.
Fetch(action, resp, req, outcome) ==
    /\ clock' = req.ended
    /\ last_request_timestamp' = req.timestamp
    /\ trace' = Append(trace, [address |-> addresses[idx], action |-> action,
                               resp |-> resp, outcome |-> outcome])
    /\ IF outcome.ok
       THEN /\ transactions' = Extend(transactions, outcome.value)
            /\ Advance
       ELSE /\ pc' = "raised"
            /\ UNCHANGED <<transactions, idx>>
    /\ UNCHANGED <<delay, call, addresses, balances, fs, writes>>

DlNormal ==
    /\ pc = "txlist"
    /\ \E resp \in DlTxlistResponses, over \in {0}, lat \in 0..MaxLatency :
          LET req == ApiRequest(clock, last_request_timestamp, delay, resp, over, lat)
          IN Fetch("txlist", resp, req,
                   GetNormalTransactions(addresses[idx], DEFAULT_CURRENCY, req.outcome))

DlInternal ==
    /\ pc = "txlistinternal"
    /\ \E resp \in DlInternalResponses, over \in {0}, lat \in 0..MaxLatency :
          LET req == ApiRequest(clock, last_request_timestamp, delay, resp, over, lat)
          IN Fetch("txlistinternal", resp, req,
                   GetInternalTransactions(addresses[idx], DEFAULT_CURRENCY, req.outcome))

DlErc20 ==
    /\ pc = "tokentx"
    /\ \E resp \in DlTokenResponses, over \in {0}, lat \in 0..MaxLatency :
          LET req == ApiRequest(clock, last_request_timestamp, delay, resp, over, lat)
          IN Fetch("tokentx", resp, req, GetErc20Transfers(addresses[idx], req.outcome))

DlAssets ==
    /\ pc = "assets"
    /\ \E resp \in DlWalletResponses :
          LET outcome == GetAssetBalances(addresses[idx], resp) IN
          /\ trace' = Append(trace, [address |-> addresses[idx], action |-> "assets",
                                     resp |-> resp, outcome |-> outcome])
          /\ IF outcome.ok
             THEN /\ balances' = Extend(balances, outcome.value)
                  /\ Advance
             ELSE /\ pc' = "raised"
                  /\ UNCHANGED <<balances, idx>>
    /\ UNCHANGED <<clock, last_request_timestamp, delay, call, addresses,
                   transactions, fs, writes>>

\* open(<name>.json, 'w') and json.dump(transactions, ...)
WriteTransactions ==
    /\ pc = "write_transactions"
    /\ fs' = [fs EXCEPT !.transactions = Some(JsonDump(transactions))]
    /\ writes' = Append(writes, "transactions")
    /\ pc' = "write_balances"
    /\ UNCHANGED <<clock, last_request_timestamp, delay, call, addresses, idx,
                   transactions, balances, trace>>

\* open(<name>-balances.json, 'w') and json.dump(balances, ...)
WriteBalances ==
    /\ pc = "write_balances"
    /\ fs' = [fs EXCEPT !.balances = Some(JsonDump(balances))]
    /\ writes' = Append(writes, "balances")
    /\ pc' = "done"
    /\ UNCHANGED <<clock, last_request_timestamp, delay, call, addresses, idx,
                   transactions, balances, trace>>

NextDownload ==
    \/ DlNormal
    \/ DlInternal
    \/ DlErc20
    \/ DlAssets
    \/ WriteTransactions
    \/ WriteBalances

SpecDownload == InitDownload /\ [][NextDownload]_vars

\* ------------------------------------------------- claims under SpecItems
\* the call of a get_* operation of the block-explorer client (or of the
\* request primitive) that has returned or raised
RequestMade == call.op \notin {"none", "get_asset_balances"}

\* the records of out made from the item whose hash is h
RecordsOf(out, h) == SelectSeq(out, LAMBDA r : r.tx_id = h)

IsFeeRecord(r) == r.to = MINER

\* the records of out follow the order of the provider's items
InItemOrder(out) ==
    \A j, k \in DOMAIN out : j < k => out[j].tx_id[2] <= out[k].tx_id[2]

\* C1: get_normal_transactions emits, for each txlist item, a value record
\* if and only if the item's error flag is false and a fee record (to =
\* MINER) if and only if the item's sender is the queried address up to
\* case; the value record comes right before the fee record, and the
\* records of different items follow the provider's order.
C1_NormalRecordsPerItem ==
    (call.op = "get_normal_transactions" /\ call.req.outcome.ok) =>
        LET items == call.req.outcome.value
            out == call.outcome.value
        IN /\ call.outcome.ok
           /\ InItemOrder(out)
           /\ \A i \in DOMAIN items :
                LET recs == RecordsOf(out, items[i].hash)
                    failed == items[i].isError = "1"
                    sender == Lower(items[i].from) = Lower(call.address)
                    fees == SelectSeq(recs, IsFeeRecord)
                    values == SelectSeq(recs, LAMBDA r : ~IsFeeRecord(r))
                IN /\ Len(values) = IF failed THEN 0 ELSE 1
                   /\ Len(fees) = IF sender THEN 1 ELSE 0
                   /\ (failed /\ ~sender) => recs = <<>>
                   /\ (failed /\ sender) => Len(recs) = 1 /\ IsFeeRecord(recs[1])
                   /\ (~failed /\ sender) =>
                         /\ Len(recs) = 2
                         /\ ~IsFeeRecord(recs[1])
                         /\ recs[1].to = items[i].to
                         /\ IsFeeRecord(recs[2])
                   /\ \A k \in DOMAIN recs : recs[k].from = items[i].from

\* a failed transaction sent by the queried address written in another
\* case, followed by a transaction that succeeded and came from elsewhere
C1_Witness ==
    /\ call.op = "get_normal_transactions"
    /\ call.outcome.ok
    /\ Len(call.req.outcome.value) = 2
    /\ call.req.outcome.value[1].isError = "1"
    /\ call.req.outcome.value[1].from # call.address
    /\ Lower(call.req.outcome.value[1].from) = Lower(call.address)
    /\ call.req.outcome.value[2].isError = "0"
    /\ Lower(call.req.outcome.value[2].from) # Lower(call.address)
    /\ Len(call.outcome.value) = 2
    /\ IsFeeRecord(call.outcome.value[1])
    /\ ~IsFeeRecord(call.outcome.value[2])

\* the provider reports a status other than success with one of the known
\* empty-result phrases, and a result
EmptyResultReported ==
    /\ RequestMade
    /\ call.resp.transport = "ok"
    /\ call.resp.is_json
    /\ call.resp.data.status \in {Some("0")}
    /\ call.resp.data.message \in
          { Some("No transactions found"),
            Some("No internal transactions found"),
            Some("No token transfers found") }
    /\ call.resp.data.result # None

\* C3 as claimed: on a non-success status with a known empty-result phrase
\* the request primitive returns an empty sequence rather than raising,
\* whatever the result field contains.
C3_Original_EmptySequence ==
    EmptyResultReported =>
        /\ call.req.outcome.ok
        /\ call.req.outcome.value = <<>>

\* C3: on a non-success numeric status with a known empty-result phrase
\* the request primitive does not raise and returns the response's result
\* field as it is: an empty sequence exactly when the result is empty.
C3_ReturnsResultField ==
    EmptyResultReported =>
        /\ call.req.outcome.ok
        /\ call.req.outcome.value = call.resp.data.result[1]

C3_Witness ==
    /\ EmptyResultReported
    /\ call.resp.data.message = Some("No token transfers found")
    /\ call.req.outcome.ok
    /\ call.req.outcome.value # <<>>

\* the records of a call of get_erc20_transfers: one, with its contract,
\* for each item of items that Kept holds of, in the provider's order
TokenRecordsAre(items, out, Kept(_)) ==
    /\ InItemOrder(out)
    /\ \A k \in DOMAIN out : \E i \in DOMAIN items : out[k].tx_id = items[i].hash
    /\ \A i \in DOMAIN items :
          LET recs == RecordsOf(out, items[i].hash) IN
          IF Kept(items[i])
          THEN /\ Len(recs) = 1
               /\ recs[1].contract = items[i].contractAddress
          ELSE recs = <<>>

AssetItems == call.resp.body.data[1].items[1]

\* C5 as claimed: get_asset_balances emits a record for an item if and only
\* if its quote is a number greater than 0; a quote that is null, 0,
\* negative, a string or a boolean gives no record.
C5_Original_NumericPositiveOnly ==
    (call.op = "get_asset_balances" /\ call.outcome.ok) =>
        \A i \in DOMAIN AssetItems :
            LET recs == SelectSeq(call.outcome.value, LAMBDA r :
                            r.currency = AssetItems[i].contract_ticker_symbol)
                q == AssetItems[i].quote
            IN Len(recs) = IF q.t \in {"int", "float"} /\ q.num > 0 THEN 1 ELSE 0

\* C7 as claimed: every failure of get_asset_balances, and of the request
\* primitive, is a RuntimeError, never an exception of another kind.
C7_Original_AlwaysRuntimeError ==
    /\ (call.op = "get_asset_balances" /\ ~call.outcome.ok) =>
            call.outcome.exc = "RuntimeError"
    /\ (RequestMade /\ ~call.req.outcome.ok) =>
            call.req.outcome.exc = "RuntimeError"

\* ----------------------------------------------- claims under SpecRequest
\* a call of _make_api_request has been made
Called == call.op # "none"

\* C8 as claimed: whenever _make_api_request raises, the last-request
\* timestamp is left at the value it had before the call.
C8_Original_UnchangedOnRaise ==
    (Called /\ ~call.outcome.ok) => last_request_timestamp = call.req.before

\* C8: the last-request timestamp is set, to the time the call ends, by
\* every request whose response arrived with a success status and parsed
\* as JSON, also when the call then raises on the provider's status or on a
\* missing field; it is left unchanged when the GET fails or the body does
\* not parse.
C8_UpdatedOncePerParsedResponse ==
    Called =>
        /\ (call.resp.transport # "ok" \/ ~call.resp.is_json) =>
              /\ ~call.outcome.ok
              /\ last_request_timestamp = call.req.before
        /\ (call.resp.transport = "ok" /\ call.resp.is_json) =>
              /\ last_request_timestamp = call.req.ended
              /\ last_request_timestamp >= call.req.before

\* a later call of a client that the provider refuses: it raises, and the
\* timestamp has moved
C8_Witness ==
    /\ Called
    /\ call.req.before # 0
    /\ ~call.outcome.ok
    /\ call.resp.data.message = Some("NOTOK")
    /\ last_request_timestamp = call.req.ended
    /\ last_request_timestamp > call.req.before

\* C9: every GET is issued at least delay seconds after the time recorded
\* for the last request; the sleep, when taken, is for delay minus the time
\* elapsed, and none is taken when at least delay has elapsed, as for the
\* first request of a fresh client.
C9_MinimumDelay ==
    Called =>
        LET elapsed == call.req.entered - call.req.before IN
        /\ call.req.issued >= call.req.before + delay
        /\ elapsed < delay => call.req.slept = delay - elapsed
        /\ elapsed >= delay => call.req.slept = 0
        /\ call.req.before = 0 => call.req.slept = 0
        /\ call.req.issued >= call.req.entered + call.req.slept

\* a call made one second after the last one, which sleeps for the rest of
\* a longer delay
C9_Witness ==
    /\ Called
    /\ call.req.before # 0
    /\ call.req.entered = call.req.before + 1
    /\ call.req.slept = delay - 1
    /\ call.req.slept > 0

\* ---------------------------------------------- claims under SpecDownload
\* every call of the loop body has been made for every address, and none
\* has failed
AllFetched ==
    /\ Len(trace) = 4 * Len(addresses)
    /\ \A k \in DOMAIN trace : trace[k].outcome.ok

\* an output file holds what it held before download was called
Untouched(file) == file \in {None, Some(Stale)}

\* C2: no output file is written before every fetch of every address has
\* succeeded; when a fetch fails download raises with both files as they
\* were.
C2_NoWriteBeforeAllFetched ==
    /\ (\E k \in DOMAIN trace : ~trace[k].outcome.ok) =>
          /\ pc = "raised"
          /\ writes = <<>>
          /\ Untouched(fs.transactions)
          /\ Untouched(fs.balances)
    /\ (writes # <<>> \/ ~Untouched(fs.transactions) \/ ~Untouched(fs.balances)) =>
          AllFetched
    /\ pc = "raised" => ~trace[Len(trace)].outcome.ok

\* the asset balances of the second address cannot be fetched, and the
\* files of an earlier run are as they were
C2_Witness ==
    /\ pc = "raised"
    /\ Len(trace) = 8
    /\ fs = [transactions |-> Some(Stale), balances |-> Some(Stale)]
    /\ writes = <<>>
    /\ transactions # <<>>

\* what the call of action for address returned
ReturnedBy(address, action) ==
    LET k == CHOOSE k \in DOMAIN trace :
                 trace[k].address = address /\ trace[k].action = action
    IN trace[k].outcome.value

ExpectedTransactions ==
    Flatten([i \in DOMAIN addresses |->
                ReturnedBy(addresses[i], "txlist")
                \o ReturnedBy(addresses[i], "txlistinternal")
                \o ReturnedBy(addresses[i], "tokentx")])

ExpectedBalances ==
    Flatten([i \in DOMAIN addresses |-> ReturnedBy(addresses[i], "assets")])

\* one address with an outgoing transaction that succeeded, one that
\* failed, no internal transaction and one token transfer
OneAddressExample ==
    /\ addresses = <<AddrA>>
    /\ Len(trace) = 4
    /\ trace[1].resp.data.result =
          Some(<<TxItem(1, "0", AddrA), TxItem(2, "1", AddrA)>>)
    /\ trace[2].resp.data.result = Some(<<>>)
    /\ trace[3].resp.data.result = Some(<<TokenItem(1, Some("2"))>>)

\* C6: when every fetch succeeded, the file of transactions holds the
\* records returned for each address in key order (normal, then internal,
\* then token transfers) and the file of balances the asset balances in the
\* same order, nothing added, dropped or reordered; the example of one
\* address gives four transactions.
C6_FilesHoldConcatenation ==
    /\ pc \in {"write_transactions", "write_balances", "done"} =>
          /\ transactions = ExpectedTransactions
          /\ balances = ExpectedBalances
    /\ pc \in {"write_balances", "done"} =>
          fs.transactions = Some(JsonDump(ExpectedTransactions))
    /\ pc = "done" =>
          /\ fs.balances = Some(JsonDump(ExpectedBalances))
          /\ Len(fs.transactions[1]) = Len(ExpectedTransactions)
          /\ OneAddressExample => Len(fs.transactions[1]) = 4

\* two addresses, each with normal, internal and token records and a
\* balance
C6_Witness ==
    /\ pc = "done"
    /\ Len(addresses) = 2
    /\ \A k \in DOMAIN trace : trace[k].outcome.value # <<>>
    /\ Len(fs.transactions[1]) = 8
    /\ Len(fs.balances[1]) = 2

LoopBody == <<"txlist", "txlistinternal", "tokentx", "assets">>

\* C10: download calls the providers in a fixed order, one call at a time:
\* for each address in turn txlist, txlistinternal, tokentx and the asset
\* balances, each once; the calls stop at the first that fails, and the
\* 'balance' action is never requested.
C10_FixedSequentialTrace ==
    /\ Len(trace) <= 4 * Len(addresses)
    /\ \A k \in DOMAIN trace :
          /\ trace[k].address = addresses[((k - 1) \div 4) + 1]
          /\ trace[k].action = LoopBody[((k - 1) % 4) + 1]
          /\ trace[k].action # "balance"
          /\ k < Len(trace) => trace[k].outcome.ok
    /\ pc \in {"write_transactions", "write_balances", "done"} => AllFetched
    /\ pc \in {LoopBody[j] : j \in DOMAIN LoopBody} =>
          /\ \A k \in DOMAIN trace : trace[k].outcome.ok
          /\ pc = LoopBody[(Len(trace) % 4) + 1]
          /\ idx = (Len(trace) \div 4) + 1

\* the token transfers of the second address cannot be fetched: seven
\* calls were made and no more follow
C10_Witness ==
    /\ pc = "raised"
    /\ Len(addresses) = 2
    /\ Len(trace) = 7
    /\ trace[7].action = "tokentx"
    /\ trace[7].address = addresses[2]

====
